---- MODULE Spec2Model ----
(***************************************************************************)
(* Model of payment-rs: the PaymentOrder aggregate (domain/entities.rs),   *)
(* the PaymentService orchestrator (application/payment_service.rs), the  *)
(* MySQL repository (infrastructure/adapters/mysql_payment_repository.rs), *)
(* the WeChat Pay adapter (infrastructure/adapters/wechat_pay_adapter.rs)  *)
(* and the HTTP handlers (api/handlers.rs).                                *)
(*                                                                         *)
(* Conventions                                                             *)
(*   Option<T>   : <<>> is None, <<v>> is Some(v)                          *)
(*   String      : a sequence of characters; String::len() is the number  *)
(*                 of UTF-8 bytes, not the number of characters            *)
(*   Result<T,E> : a record [ok, order, err]; [ok, val, err] for the       *)
(*                 functions of the adapter                                *)
(*   panic!      : a failure of kind "panic"                               *)
(***************************************************************************)
EXTENDS Integers, Sequences, FiniteSets, Bags, TLC

VARIABLES
    order,      \* domain machine: Option<PaymentOrder> under test
    origin,     \* domain machine: how `order` was built: "none" | "new" | "row" | "refused"
    last,       \* domain machine: the last call made on `order` and its result
    now,        \* the wall clock read by Utc::now()
    db,         \* table payment_orders: a set of rows
    nextId,     \* source of fresh Uuid::new_v4() values
    inflight,   \* the bag of requests and webhook deliveries being handled
    ret,        \* the request that returned in the last step, with its result
    opsLeft,    \* remaining number of requests the environment will issue
    io          \* adapter and repository functions: the last call, its arguments and result

vars == <<order, origin, last, now, db, nextId, inflight, ret, opsLeft, io>>

----------------------------------------------------------------------------
(* Bounds *)

MaxClock == 1
MaxOps == 3
MaxInFlight == 2

----------------------------------------------------------------------------
(* Option and String helpers *)

None == <<>>
Some(v) == <<v>>
IsSome(x) == x # <<>>
Unwrap(x) == x[1]

\* Characters of three UTF-8 bytes (CJK); every other character is ASCII.
WideChars == {"w"}

CharBytes(c) == IF c \in WideChars THEN 3 ELSE 1

\* String::len(): the length in bytes of the UTF-8 encoding, the sum of
\* CharBytes over the characters (one byte each plus two more per wide one).
StrLen(s) ==
    Len(s) + (CharBytes("w") - CharBytes("a")) * Cardinality({i \in 1..Len(s) : s[i] \in WideChars})

\* The number of characters of a string (s.chars().count()).
CharCount(s) == Len(s)

\* A string of n copies of the character c.
Rep(c, n) == [i \in 1..n |-> c]

----------------------------------------------------------------------------
(* domain/value_objects.rs *)

PaymentState == {"Pending", "Processing", "Succeeded", "Failed", "Refunded", "Closed"}

PaymentMethod == {"MiniProgram", "Jsapi", "Native", "H5"}

\* impl Display for PaymentState
StateToString(s) ==
    CASE s = "Pending"    -> "pending"
      [] s = "Processing" -> "processing"
      [] s = "Succeeded"  -> "succeeded"
      [] s = "Failed"     -> "failed"
      [] s = "Refunded"   -> "refunded"
      [] s = "Closed"     -> "closed"

\* impl Display for PaymentMethod
MethodToString(m) ==
    CASE m = "MiniProgram" -> "mini_program"
      [] m = "Jsapi"       -> "jsapi"
      [] m = "Native"      -> "native"
      [] m = "H5"          -> "h5"

----------------------------------------------------------------------------
(* domain/errors.rs *)

NoErr == [kind |-> "", expected |-> "", actual |-> ""]
Error(k) == [kind |-> k, expected |-> "", actual |-> ""]
InvalidState(e, a) == [kind |-> "InvalidState", expected |-> e, actual |-> a]

Ok(o) == [ok |-> TRUE, order |-> o, err |-> NoErr]
Err(o, e) == [ok |-> FALSE, order |-> o, err |-> e]

----------------------------------------------------------------------------
(* domain/entities.rs *)

MaxOutOrderNoLen == 64
MaxDescriptionLen == 127

\* PaymentOrder::new with the openid and attach arguments exchanged.
PaymentOrderNew_swapped(id, out_order_no, amount, payment_method, description, client_ip, openid, attach, t) ==
    IF amount <= 0
    THEN Err(None, Error("InvalidAmount"))
    ELSE IF out_order_no = <<>> \/ StrLen(out_order_no) > MaxOutOrderNoLen
    THEN Err(None, Error("ValidationError"))
    ELSE IF description = <<>> \/ StrLen(description) > MaxDescriptionLen
    THEN Err(None, Error("ValidationError"))
    ELSE Ok(Some([id             |-> id,
                  out_order_no   |-> out_order_no,
                  transaction_id |-> None,
                  amount         |-> amount,
                  payment_method |-> payment_method,
                  state          |-> "Pending",
                  description    |-> description,
                  openid         |-> attach,
                  client_ip      |-> client_ip,
                  created_at     |-> t,
                  updated_at     |-> t,
                  paid_at        |-> None,
                  attach         |-> openid,
                  prepay_id      |-> None]))

\* PaymentOrder::new that lets an amount of zero through.
PaymentOrderNew_zero(id, out_order_no, amount, payment_method, description, client_ip, openid, attach, t) ==
    IF amount < 0
    THEN Err(None, Error("InvalidAmount"))
    ELSE IF out_order_no = <<>> \/ StrLen(out_order_no) > MaxOutOrderNoLen
    THEN Err(None, Error("ValidationError"))
    ELSE IF description = <<>> \/ StrLen(description) > MaxDescriptionLen
    THEN Err(None, Error("ValidationError"))
    ELSE Ok(Some([id             |-> id,
                  out_order_no   |-> out_order_no,
                  transaction_id |-> None,
                  amount         |-> amount,
                  payment_method |-> payment_method,
                  state          |-> "Pending",
                  description    |-> description,
                  openid         |-> openid,
                  client_ip      |-> client_ip,
                  created_at     |-> t,
                  updated_at     |-> t,
                  paid_at        |-> None,
                  attach         |-> attach,
                  prepay_id      |-> None]))

\* PaymentOrder::new. The result's order field is None when new fails.
PaymentOrderNew(id, out_order_no, amount, payment_method, description, client_ip, openid, attach, t) ==
    IF amount <= 0
    THEN Err(None, Error("InvalidAmount"))
    ELSE IF out_order_no = <<>> \/ StrLen(out_order_no) > MaxOutOrderNoLen
    THEN Err(None, Error("ValidationError"))
    ELSE IF description = <<>> \/ StrLen(description) > MaxDescriptionLen
    THEN Err(None, Error("ValidationError"))
    ELSE Ok(Some([id             |-> id,
                  out_order_no   |-> out_order_no,
                  transaction_id |-> None,
                  amount         |-> amount,
                  payment_method |-> payment_method,
                  state          |-> "Pending",
                  description    |-> description,
                  openid         |-> openid,
                  client_ip      |-> client_ip,
                  created_at     |-> t,
                  updated_at     |-> t,
                  paid_at        |-> None,
                  attach         |-> attach,
                  prepay_id      |-> None]))

\* mark_as_processing with the two fields of the error exchanged.
mark_as_processing_swapped(o, t) ==
    IF o.state # "Pending"
    THEN Err(o, InvalidState(StateToString(o.state), StateToString("Pending")))
    ELSE Ok([o EXCEPT !.state = "Processing", !.updated_at = t])

\* PaymentOrder::mark_as_processing
mark_as_processing(o, t) ==
    IF o.state # "Pending"
    THEN Err(o, InvalidState(StateToString("Pending"), StateToString(o.state)))
    ELSE Ok([o EXCEPT !.state = "Processing", !.updated_at = t])

\* mark_as_succeeded whose guard forgets Processing.
mark_as_succeeded_pending_only(o, transaction_id, t) ==
    IF o.state # "Pending"
    THEN Err(o, InvalidState("processing or pending", StateToString(o.state)))
    ELSE Ok([o EXCEPT !.state = "Succeeded",
                      !.transaction_id = Some(transaction_id),
                      !.paid_at = Some(t),
                      !.updated_at = t])

\* mark_as_succeeded whose guard lets Failed and Closed orders through.
mark_as_succeeded_late(o, transaction_id, t) ==
    IF o.state = "Succeeded" \/ o.state = "Refunded"
    THEN Err(o, InvalidState("processing or pending", StateToString(o.state)))
    ELSE Ok([o EXCEPT !.state = "Succeeded",
                      !.transaction_id = Some(transaction_id),
                      !.paid_at = Some(t),
                      !.updated_at = t])

\* mark_as_succeeded whose guard lets a Succeeded order through.
mark_as_succeeded_again(o, transaction_id, t) ==
    IF o.state # "Processing" /\ o.state # "Pending" /\ o.state # "Succeeded"
    THEN Err(o, InvalidState("processing or pending", StateToString(o.state)))
    ELSE Ok([o EXCEPT !.state = "Succeeded",
                      !.transaction_id = Some(transaction_id),
                      !.paid_at = Some(t),
                      !.updated_at = t])

\* PaymentOrder::mark_as_succeeded
mark_as_succeeded(o, transaction_id, t) ==
    IF o.state # "Processing" /\ o.state # "Pending"
    THEN Err(o, InvalidState("processing or pending", StateToString(o.state)))
    ELSE Ok([o EXCEPT !.state = "Succeeded",
                      !.transaction_id = Some(transaction_id),
                      !.paid_at = Some(t),
                      !.updated_at = t])

\* mark_as_failed whose guard lets a Succeeded order through.
mark_as_failed_from_succeeded(o, t) ==
    IF o.state # "Processing" /\ o.state # "Pending" /\ o.state # "Succeeded"
    THEN Err(o, InvalidState("processing or pending", StateToString(o.state)))
    ELSE Ok([o EXCEPT !.state = "Failed", !.updated_at = t])

\* mark_as_failed that also clears the gateway transaction id.
mark_as_failed_clears(o, t) ==
    IF o.state # "Processing" /\ o.state # "Pending"
    THEN Err(o, InvalidState("processing or pending", StateToString(o.state)))
    ELSE Ok([o EXCEPT !.state = "Failed", !.transaction_id = None, !.paid_at = Some(t), !.updated_at = t])

\* PaymentOrder::mark_as_failed
mark_as_failed(o, t) ==
    IF o.state # "Processing" /\ o.state # "Pending"
    THEN Err(o, InvalidState("processing or pending", StateToString(o.state)))
    ELSE Ok([o EXCEPT !.state = "Failed", !.updated_at = t])

\* mark_as_closed whose guard forgets Refunded.
mark_as_closed_refunded(o, t) ==
    IF o.state = "Succeeded"
    THEN Err(o, InvalidState("pending or processing or failed", StateToString(o.state)))
    ELSE Ok([o EXCEPT !.state = "Closed", !.updated_at = t])

\* PaymentOrder::mark_as_closed
mark_as_closed(o, t) ==
    IF o.state = "Succeeded" \/ o.state = "Refunded"
    THEN Err(o, InvalidState("pending or processing or failed", StateToString(o.state)))
    ELSE Ok([o EXCEPT !.state = "Closed", !.updated_at = t])

\* set_prepay_id that refuses an order that is no longer Pending.
set_prepay_id_pending_only(o, prepay_id, t) ==
    IF o.state # "Pending"
    THEN Err(o, InvalidState(StateToString("Pending"), StateToString(o.state)))
    ELSE Ok([o EXCEPT !.prepay_id = Some(prepay_id), !.updated_at = t])

\* set_prepay_id that leaves updated_at as it was.
set_prepay_id_stale(o, prepay_id, t) ==
    Ok([o EXCEPT !.prepay_id = Some(prepay_id)])

\* PaymentOrder::set_prepay_id
set_prepay_id(o, prepay_id, t) ==
    Ok([o EXCEPT !.prepay_id = Some(prepay_id), !.updated_at = t])

\* PaymentOrder::can_pay
can_pay(o) == o.state = "Pending"

\* is_finished that counts Refunded as finished.
is_finished_refunded(o) == o.state \in {"Succeeded", "Failed", "Closed", "Refunded"}

\* PaymentOrder::is_finished
is_finished(o) == o.state \in {"Succeeded", "Failed", "Closed"}

----------------------------------------------------------------------------
(* infrastructure/adapters/mysql_payment_repository.rs: row <-> entity *)

\* The tokens the state and payment_method columns hold (the Display forms).
StateTokens == {StateToString(s) : s \in PaymentState}
MethodTokens == {MethodToString(m) : m \in PaymentMethod}

\* The column values bound by save: the entity with state and payment_method
\* rendered by to_string().
ToRow(o) ==
    [o EXCEPT !.state = StateToString(o.state),
              !.payment_method = MethodToString(o.payment_method)]

\* match self.state.as_str() { ... } of PaymentOrderRow::into_order
ParseState(tok) ==
    IF tok \in StateTokens
    THEN CHOOSE s \in PaymentState : StateToString(s) = tok
    ELSE "panic"

\* match self.payment_method.as_str() { ... } of PaymentOrderRow::into_order
ParseMethod(tok) ==
    IF tok \in MethodTokens
    THEN CHOOSE m \in PaymentMethod : MethodToString(m) = tok
    ELSE "panic"

\* PaymentOrderRow::into_order, for a row whose tokens are known.
into_order(row) ==
    [row EXCEPT !.state = ParseState(row.state),
                !.payment_method = ParseMethod(row.payment_method)]

----------------------------------------------------------------------------
(* Inputs *)

T1 == <<"T", "1">>
TxIds == {"tx1", "tx2"}
PrepayIds == {"pp_1"}

AmountInputs == {-1, 0, 1, 1000}

\* Merchant order numbers: empty, short, at and over the limit in ASCII, and
\* under / over the limit in three-byte characters.
OrderNoInputs ==
    {<<>>, T1, Rep("a", MaxOutOrderNoLen), Rep("a", MaxOutOrderNoLen + 1), Rep("w", 22)}

DescriptionInputs ==
    {<<>>, <<"i">>, Rep("a", MaxDescriptionLen), Rep("a", MaxDescriptionLen + 1), Rep("w", 43)}

MethodInputs == {"MiniProgram", "Native"}
OpenidInputs == {None, Some("oid1")}
AttachInputs == {None, Some("att")}
ClientIp == "127.0.0.1"

\* Rows a table can hold for one order: every state token, with and without
\* the gateway fields.
RowInputs ==
    { [id             |-> 0,
       out_order_no   |-> T1,
       transaction_id |-> tx,
       amount         |-> 1000,
       payment_method |-> "mini_program",
       state          |-> st,
       description    |-> <<"i">>,
       openid         |-> Some("oid1"),
       client_ip      |-> ClientIp,
       created_at     |-> 0,
       updated_at     |-> 0,
       paid_at        |-> pa,
       attach         |-> None,
       prepay_id      |-> None] :
      st \in StateTokens, tx \in {None, Some("tx1")}, pa \in {None, Some(0)} }

----------------------------------------------------------------------------
(* Requests in flight *)

NoRes == [ok |-> TRUE, err |-> NoErr, resp |-> None]

\* No request.  In the record of a request, order is the handler's local
\* `let mut order`.  Kept for the properties only: seen is the row the table
\* held for the request's order number when the request arrived, loaded the
\* order the handler got from find_by_out_order_no, updated tells that the
\* handler's repository.update returned Ok, dup that another delivery of
\* the same notification was in flight for the same Pending order, req the
\* CreatePaymentRequest, calls the repository and gateway methods the handler
\* has called, gw what the gateway answered to the handler's call, and
\* delivery the HTTP delivery a webhook request came in.
Idle ==
    [pc |-> "idle", op |-> "none", no |-> <<>>, event |-> "", tx |-> None,
     order |-> None, seen |-> None, loaded |-> None, updated |-> FALSE, dup |-> FALSE,
     req |-> None, calls |-> {}, gw |-> None, delivery |-> None, res |-> NoRes]

\* No call of an adapter or repository function yet.
NoIo == [op |-> "none"]

----------------------------------------------------------------------------
(* Initial state *)

NoCall == [op |-> "none", args |-> <<>>, before |-> None, ok |-> TRUE, err |-> NoErr]

Call(op, args, before, r) ==
    [op |-> op, args |-> args, before |-> before, ok |-> r.ok, err |-> r.err]

Init ==
    /\ order = None
    /\ origin = "none"
    /\ last = NoCall
    /\ now = 0
    /\ db = {}
    /\ nextId = 1
    /\ inflight = EmptyBag
    /\ ret = Idle
    /\ opsLeft = MaxOps
    /\ io = NoIo

\* Time passes between two reads of Utc::now().
Tick ==
    /\ now < MaxClock
    /\ now' = now + 1
    /\ ret' = Idle
    /\ UNCHANGED <<order, origin, last, db, nextId, inflight, opsLeft, io>>

----------------------------------------------------------------------------
(* The domain machine: one PaymentOrder driven through its operations *)

orchVars == <<db, inflight, ret, opsLeft>>

\* let order = PaymentOrder::new(...)
DNew ==
    /\ origin = "none"
    /\ \E no \in OrderNoInputs, a \in AmountInputs, d \in DescriptionInputs, m \in MethodInputs, oid \in OpenidInputs, att \in AttachInputs :
         LET r == PaymentOrderNew(nextId, no, a, m, d, ClientIp, oid, att, now) IN
           /\ order' = r.order
           /\ origin' = IF r.ok THEN "new" ELSE "refused"
           /\ last' = Call("new", <<no, a, d, m, oid, att>>, None, r)
           /\ nextId' = IF r.ok THEN nextId + 1 ELSE nextId
    /\ UNCHANGED <<now, orchVars, io>>

\* let order = row.into_order()
DLoad ==
    /\ origin = "none"
    /\ \E row \in RowInputs :
         /\ order' = Some(into_order(row))
         /\ last' = Call("into_order", <<>>, None, Ok(None))
    /\ origin' = "row"
    /\ UNCHANGED <<now, nextId, orchVars, io>>

\* The effect of a &mut self operation with result r on the order under test.
Apply(op, args, r) ==
    /\ order' = Some(r.order)
    /\ last' = Call(op, args, order, r)
    /\ UNCHANGED <<origin, now, nextId, orchVars, io>>

DMarkProcessing ==
    /\ IsSome(order)
    /\ Apply("mark_as_processing", <<>>, mark_as_processing(Unwrap(order), now))

DMarkSucceeded ==
    /\ IsSome(order)
    /\ \E tx \in TxIds :
         Apply("mark_as_succeeded", <<tx>>, mark_as_succeeded(Unwrap(order), tx, now))

DMarkFailed ==
    /\ IsSome(order)
    /\ Apply("mark_as_failed", <<>>, mark_as_failed(Unwrap(order), now))

DMarkClosed ==
    /\ IsSome(order)
    /\ Apply("mark_as_closed", <<>>, mark_as_closed(Unwrap(order), now))

DSetPrepayId ==
    /\ IsSome(order)
    /\ \E pp \in PrepayIds :
         Apply("set_prepay_id", <<pp>>, set_prepay_id(Unwrap(order), pp, now))

NextDomain ==
    \/ Tick
    \/ DNew
    \/ DLoad
    \/ DMarkProcessing
    \/ DMarkSucceeded
    \/ DMarkFailed
    \/ DMarkClosed
    \/ DSetPrepayId

SpecDomain == Init /\ [][NextDomain]_vars

----------------------------------------------------------------------------
(* infrastructure/adapters/mysql_payment_repository.rs: the table *)

\* The keys of table payment_orders: primary key id, unique out_order_no.
DuplicateKey(table, row) ==
    \E r \in table : r.id = row.id \/ r.out_order_no = row.out_order_no

\* save as an INSERT IGNORE: Ok, and no row written, on a duplicate key.
save_ignore(table, o) ==
    IF DuplicateKey(table, ToRow(o))
    THEN [ok |-> TRUE, table |-> table, err |-> NoErr]
    ELSE [ok |-> TRUE, table |-> table \cup {ToRow(o)}, err |-> NoErr]

\* MySqlPaymentRepository::save: INSERT INTO payment_orders.
\* Yields the new table, or the table unchanged and a DatabaseError.
save(table, o) ==
    IF DuplicateKey(table, ToRow(o))
    THEN [ok |-> FALSE, table |-> table, err |-> Error("DatabaseError")]
    ELSE [ok |-> TRUE, table |-> table \cup {ToRow(o)}, err |-> NoErr]

\* MySqlPaymentRepository::find_by_out_order_no: fetch_optional + into_order.
find_by_out_order_no(table, no) ==
    IF \E r \in table : r.out_order_no = no
    THEN Some(into_order(CHOOSE r \in table : r.out_order_no = no))
    ELSE None

\* The UPDATE with updated_at bound to the created_at column as well.
UpdatedRow_created_at(r, o) ==
    [r EXCEPT !.transaction_id = o.transaction_id,
              !.state = StateToString(o.state),
              !.created_at = o.updated_at,
              !.updated_at = o.updated_at,
              !.paid_at = o.paid_at,
              !.prepay_id = o.prepay_id]

\* The UPDATE without the prepay_id column.
UpdatedRow_no_prepay(r, o) ==
    [r EXCEPT !.transaction_id = o.transaction_id,
              !.state = StateToString(o.state),
              !.updated_at = o.updated_at,
              !.paid_at = o.paid_at]

\* The UPDATE without the paid_at column.
UpdatedRow_no_paid_at(r, o) ==
    [r EXCEPT !.transaction_id = o.transaction_id,
              !.state = StateToString(o.state),
              !.updated_at = o.updated_at,
              !.prepay_id = o.prepay_id]

\* The row an UPDATE ... SET transaction_id, state, updated_at, paid_at,
\* prepay_id leaves in place of r.
UpdatedRow(r, o) ==
    [r EXCEPT !.transaction_id = o.transaction_id,
              !.state = StateToString(o.state),
              !.updated_at = o.updated_at,
              !.paid_at = o.paid_at,
              !.prepay_id = o.prepay_id]

\* MySqlPaymentRepository::update: UPDATE ... WHERE id = ?, OrderNotFound
\* when no row matched.
update(table, o) ==
    IF \E r \in table : r.id = o.id
    THEN [ok |-> TRUE,
          table |-> {IF r.id = o.id THEN UpdatedRow(r, o) ELSE r : r \in table},
          err |-> NoErr]
    ELSE [ok |-> FALSE, table |-> table, err |-> Error("OrderNotFound")]

\* The row the table holds for an order number, as an Option.
RowOf(table, no) ==
    IF \E r \in table : r.out_order_no = no
    THEN Some(CHOOSE r \in table : r.out_order_no = no)
    ELSE None

----------------------------------------------------------------------------
(* infrastructure/adapters/wechat_pay_adapter.rs: signing and decryption *)

\* Result<T, DomainError> of an adapter function.  A call that panics is
\* written as a failure of kind "panic": the call returns nothing.
Value(v) == [ok |-> TRUE, val |-> Some(v), err |-> NoErr]
Failure(e) == [ok |-> FALSE, val |-> None, err |-> e]
Panic == Failure(Error("panic"))

NL == <<"\n">>

\* Sha256::new().update(m).finalize(): the digest of m, kept symbolic.
Sha256(m) == <<"sha256(">> \o m \o <<")">>

\* base64 STANDARD.encode, kept symbolic.
Base64(b) == <<"base64(">> \o b \o <<")">>

\* SigningKey::<Sha256>::new(key).sign_with_rng(rng, msg): the RSASSA-PKCS1-v1_5
\* signature with SHA-256 of msg; the signer digests msg itself.
SignPkcs1v15Sha256(key, msg) == <<"rsa(">> \o key \o <<",">> \o Sha256(msg) \o <<")">>

\* The private keys a configuration can hold: one PKCS#8 PEM that parses and
\* one that does not.
GoodPrivateKey == <<"pem">>
BadPrivateKey == <<"junk">>

\* The message of build_signature without its separators.
CanonicalMessage_nosep(method, url, timestamp, nonce, body) ==
    method \o url \o timestamp \o nonce \o body

\* format!("{}\n{}\n{}\n{}\n{}", method, url, timestamp, nonce, body)
CanonicalMessage(method, url, timestamp, nonce, body) ==
    method \o NL \o url \o NL \o timestamp \o NL \o nonce \o NL \o body

\* WeChatPayAdapter::build_signature
build_signature(private_key, method, url, timestamp, nonce, body) ==
    LET message == CanonicalMessage(method, url, timestamp, nonce, body)
        hash == Sha256(message)
    IN IF private_key # GoodPrivateKey
       THEN Failure(Error("CryptoError"))
       ELSE Value(Base64(SignPkcs1v15Sha256(private_key, hash)))

\* WeChatPayAdapter::generate_mini_pay_params; timestamp and nonce_str are
\* the values of Utc::now().timestamp() and generate_nonce_str() of the call.
generate_mini_pay_params(appid, private_key, prepay_id, timestamp, nonce_str) ==
    LET package == <<"prepay_id=">> \o prepay_id
        message == CanonicalMessage(appid, timestamp, nonce_str, package, <<>>)
        hash == Sha256(message)
    IN IF private_key # GoodPrivateKey
       THEN Failure(Error("CryptoError"))
       ELSE Value([time_stamp |-> timestamp,
                   nonce_str  |-> nonce_str,
                   package    |-> package,
                   sign_type  |-> "RSA",
                   pay_sign   |-> Base64(SignPkcs1v15Sha256(private_key, hash))])

\* Key and nonce sizes of Aes256Gcm.
AesKeyLen == 32
GcmNonceLen == 12

\* What the peer sends as resource.ciphertext: the base64 of the AES-256-GCM
\* sealing of plain under key, nonce and associated data aad.
Seal(key, nonce, aad, plain) ==
    [b64 |-> TRUE, intact |-> TRUE, key |-> key, nonce |-> nonce, aad |-> aad, plain |-> plain]

\* A sealed ciphertext with a bit flipped, and a string that is not base64.
Tamper(ct) == [ct EXCEPT !.intact = FALSE]
NotBase64(ct) == [ct EXCEPT !.b64 = FALSE]

\* Aes256Gcm::decrypt(nonce, Payload {msg, aad}): the plaintext when the tag
\* verifies under key, nonce and aad.
GcmOpen(key, nonce, aad, ct) ==
    IF ct.intact /\ ct.key = key /\ ct.nonce = nonce /\ ct.aad = aad
    THEN Value(ct.plain)
    ELSE Failure(Error("aead::Error"))

\* WeChatPayAdapter::decrypt_callback_data.  The payload given to the cipher
\* is the ciphertext alone, so the associated data it authenticates is empty;
\* Nonce::from_slice panics on a nonce that is not 12 bytes long.
decrypt_callback_data(key, ciphertext, associated_data, nonce) ==
    IF ~ciphertext.b64 THEN Failure(Error("CryptoError"))
    ELSE IF StrLen(key) # AesKeyLen THEN Failure(Error("CryptoError"))
    ELSE IF StrLen(nonce) # GcmNonceLen THEN Panic
    ELSE LET plaintext == GcmOpen(key, nonce, <<>>, ciphertext)
         IN IF ~plaintext.ok THEN Failure(Error("CryptoError"))
            ELSE IF ~Unwrap(plaintext.val).utf8 THEN Failure(Error("CryptoError"))
            ELSE plaintext

\* WeChatPayAdapter::verify_notification
verify_notification(timestamp, nonce, body, signature) == Value(TRUE)

\* WeChatPayAdapter::decrypt_notification
decrypt_notification(key, ciphertext, associated_data, nonce) ==
    decrypt_callback_data(key, ciphertext, associated_data, nonce)

\* config.base_url and config.mchid.  The base URL is one token of the
\* strings below: a URL is the sequence of its parts.
BaseUrl == <<"https://api.mch.weixin.qq.com">>
MchId == <<"m", "1">>

\* str::replace(from, ""), for a pattern of one token: every occurrence goes.
RemoveAll(str, from) == SelectSeq(str, LAMBDA c : c # from[1])

\* The HTTP request a gateway call sends, and the method, URL and body it
\* passed to build_authorization for the Authorization header of the request.
HttpRequest(method, url, body, signed_method, signed_url, signed_body) ==
    [method |-> method, url |-> url, body |-> body,
     signed |-> [method |-> signed_method, url |-> signed_url, body |-> signed_body]]

\* body.to_string() of create_mini_program_order, kept symbolic.
CreateOrderBody(request) ==
    <<"{appid,mchid,description,out_trade_no:">> \o request.out_order_no
        \o <<",notify_url,amount,payer:", Unwrap(request.openid), ",scene_info}">>

\* create_mini_program_order that sends the request without a payer when the
\* request has no openid.
create_mini_program_order_request_anonymous(private_key, request) ==
    LET url == BaseUrl \o <<"/v3/pay/transactions/jsapi">>
        body_str == <<"{appid,mchid,description,out_trade_no:">> \o request.out_order_no \o <<"}">>
    IN IF ~build_signature(private_key, <<"POST">>, <<"/v3/pay/transactions/jsapi">>, <<>>, <<>>, body_str).ok
       THEN Failure(Error("CryptoError"))
       ELSE Value(HttpRequest("POST", url, body_str, "POST", <<"/v3/pay/transactions/jsapi">>, body_str))

\* create_mini_program_order up to send(): ValidationError when the request
\* has no openid, CryptoError when the private key does not parse.
create_mini_program_order_request(private_key, request) ==
    LET url == BaseUrl \o <<"/v3/pay/transactions/jsapi">>
        body_str == CreateOrderBody(request)
    IN IF request.openid = None THEN Failure(Error("ValidationError"))
       ELSE IF ~build_signature(private_key, <<"POST">>, <<"/v3/pay/transactions/jsapi">>, <<>>, <<>>, body_str).ok
       THEN Failure(Error("CryptoError"))
       ELSE Value(HttpRequest("POST", url, body_str, "POST", <<"/v3/pay/transactions/jsapi">>, body_str))

\* query_order up to send()
query_order_request(private_key, out_order_no) ==
    LET url == BaseUrl \o <<"/v3/pay/transactions/out-trade-no/">> \o out_order_no \o <<"?mchid=">> \o MchId
    IN IF ~build_signature(private_key, <<"GET">>, url, <<>>, <<>>, <<>>).ok
       THEN Failure(Error("CryptoError"))
       ELSE Value(HttpRequest("GET", url, <<>>, "GET", url, <<>>))

\* close_order up to send()
close_order_request(private_key, out_order_no) ==
    LET url == BaseUrl \o <<"/v3/pay/transactions/out-trade-no/">> \o out_order_no \o <<"/close">>
        body_str == <<"{mchid:">> \o MchId \o <<"}">>
    IN IF ~build_signature(private_key, <<"POST">>, RemoveAll(url, BaseUrl), <<>>, <<>>, body_str).ok
       THEN Failure(Error("CryptoError"))
       ELSE Value(HttpRequest("POST", url, body_str, "POST", RemoveAll(url, BaseUrl), body_str))

----------------------------------------------------------------------------
(* ports/wechat_pay_port.rs: what the gateway can answer *)

\* The merchant order numbers of the requests.
OrderNos == {T1}

\* create_mini_program_order: Ok(WeChatPayResponse) or an error.
CreateOrderResults ==
    {[ok |-> TRUE, prepay_id |-> pp] : pp \in PrepayIds} \cup {[ok |-> FALSE, prepay_id |-> ""]}

\* The transaction ids the gateway reports for the orders of OrderNos.
GatewayTxIds == {"tx1"}

\* query_order: Ok(OrderQueryResponse) or an error.
QueryOrderResults ==
    {[ok |-> TRUE, trade_state |-> ts, transaction_id |-> tx] :
        ts \in {"SUCCESS", "CLOSED", "PAYERROR", "NOTPAY"}, tx \in {None} \cup {Some(t) : t \in GatewayTxIds}}
    \cup {[ok |-> FALSE, trade_state |-> "", transaction_id |-> None]}

\* PaymentNotification: the event type and what decrypt_notification and
\* the JSON lookups yield for the resource.
NotificationInputs ==
    {[event_type |-> e, decrypt_ok |-> ok, out_trade_no |-> no, transaction_id |-> tx] :
        e \in {"TRANSACTION.SUCCESS", "REFUND.SUCCESS"},
        ok \in BOOLEAN,
        no \in {None} \cup {Some(o) : o \in OrderNos},
        tx \in {None} \cup {Some(t) : t \in GatewayTxIds}}

\* What decrypt_notification answers at the port for the notification n: the
\* decrypted JSON text or CryptoError.
PortDecrypt(n) ==
    IF n.decrypt_ok
    THEN Value([utf8 |-> TRUE,
                json |-> Some([out_trade_no |-> n.out_trade_no, transaction_id |-> n.transaction_id])])
    ELSE Failure(Error("CryptoError"))

\* The api_v3_key of the configuration, and the nonces a resource can carry:
\* two of the 12 bytes AES-GCM takes and one that is shorter.
ApiV3Key == Rep("k", AesKeyLen)
OtherKey == Rep("x", AesKeyLen)
Nonce12 == Rep("n", GcmNonceLen)
OtherNonce12 == Rep("m", GcmNonceLen)
ShortNonce == Rep("n", 8)
AadInputs == {<<>>, <<"transaction">>}

\* What a ciphertext can hold: bytes that are not UTF-8, text that is not
\* JSON, and JSON objects with or without out_trade_no and transaction_id.
Plaintexts ==
    {[utf8 |-> FALSE, json |-> None], [utf8 |-> TRUE, json |-> None]}
    \cup {[utf8 |-> TRUE, json |-> Some([out_trade_no |-> no, transaction_id |-> tx])] :
            no \in {None} \cup {Some(o) : o \in OrderNos},
            tx \in {None} \cup {Some(t) : t \in GatewayTxIds}}

PlainInput == [utf8 |-> TRUE, json |-> Some([out_trade_no |-> Some(T1), transaction_id |-> Some("tx1")])]

\* NotificationResource
Resource(c, n, a) == [ciphertext |-> c, nonce |-> n, associated_data |-> a]

\* Resources whose ciphertext is sealed under the configured key and the
\* carried nonce with no associated data, and carried with none.
BareResources == {Resource(Seal(ApiV3Key, Nonce12, <<>>, p), Nonce12, <<>>) : p \in Plaintexts}

\* The other resources: sealed with associated data and carried with it (the
\* form the gateway sends), sealed with none and carried with some, sealed
\* with some and carried with none, sealed under another key, tampered with,
\* not base64, carried with another nonce, and sealed under a short nonce.
OtherResources ==
    {Resource(Seal(ApiV3Key, Nonce12, <<"transaction">>, PlainInput), Nonce12, <<"transaction">>),
     Resource(Seal(ApiV3Key, Nonce12, <<>>, PlainInput), Nonce12, <<"transaction">>),
     Resource(Seal(ApiV3Key, Nonce12, <<"transaction">>, PlainInput), Nonce12, <<>>),
     Resource(Seal(OtherKey, Nonce12, <<>>, PlainInput), Nonce12, <<>>),
     Resource(Tamper(Seal(ApiV3Key, Nonce12, <<>>, PlainInput)), Nonce12, <<>>),
     Resource(NotBase64(Seal(ApiV3Key, Nonce12, <<>>, PlainInput)), Nonce12, <<>>),
     Resource(Seal(ApiV3Key, Nonce12, <<>>, PlainInput), OtherNonce12, <<>>),
     Resource(Seal(ApiV3Key, ShortNonce, <<>>, PlainInput), ShortNonce, <<>>)}

ResourceInputs == BareResources \cup OtherResources

\* A POST to the webhook: whether the three Wechatpay-* headers are present,
\* whether the body parses as a PaymentNotification, whether the signature
\* header is the platform's signature of timestamp, nonce and body, and the
\* notification the body holds.
Delivery(h, b, sv, e, r) ==
    [headers |-> h, body |-> b, signature_valid |-> sv, event_type |-> e, resource |-> r]

\* The deliveries: every bare resource under both event types, the other
\* resources as payment successes, one payment success whose signature is
\* not the platform's, and ones without the headers or with a malformed body.
DeliveryInputs ==
    {Delivery(TRUE, TRUE, TRUE, e, r) : e \in {"TRANSACTION.SUCCESS", "REFUND.SUCCESS"}, r \in BareResources}
    \cup {Delivery(TRUE, TRUE, TRUE, "TRANSACTION.SUCCESS", r) : r \in OtherResources}
    \cup {Delivery(TRUE, TRUE, FALSE, "TRANSACTION.SUCCESS", Resource(Seal(ApiV3Key, Nonce12, <<>>, PlainInput), Nonce12, <<>>))}
    \cup {Delivery(h, b, TRUE, "TRANSACTION.SUCCESS", Resource(Seal(ApiV3Key, Nonce12, <<>>, PlainInput), Nonce12, <<>>)) :
            h \in BOOLEAN, b \in BOOLEAN}

\* CreatePaymentRequest
CreateRequests ==
    {[out_order_no |-> T1, amount |-> a, payment_method |-> "MiniProgram", description |-> <<"i">>,
      openid |-> oid, client_ip |-> ClientIp, attach |-> None] :
        a \in {0, 1000}, oid \in OpenidInputs}
    \cup {[out_order_no |-> T1, amount |-> 1000, payment_method |-> "MiniProgram", description |-> <<>>,
           openid |-> Some("oid1"), client_ip |-> ClientIp, attach |-> None]}

----------------------------------------------------------------------------
(* application/payment_service.rs *)

domVars == <<order, origin, last>>

\* PaymentResponse
Response(o, prepay, params) ==
    [order_id |-> o.id, out_order_no |-> o.out_order_no, amount |-> o.amount,
     prepay_id |-> prepay, pay_params |-> params, state |-> StateToString(o.state)]

Done(w, o, res) == [w EXCEPT !.pc = "done", !.order = o, !.res = res]
Fail(w, o, e) == Done(w, o, [ok |-> FALSE, err |-> e, resp |-> None])
Succeed(w, o, resp) == Done(w, o, [ok |-> TRUE, err |-> NoErr, resp |-> resp])

\* A request is taken while the environment still issues one and fewer than
\* MaxInFlight are being handled.
Free == BagCardinality(inflight) < MaxInFlight /\ opsLeft > 0

\* The requests being handled.
InFlight == BagToSet(inflight)

\* The handler of request w0 (Idle for a request that arrives) goes on as w;
\* ret is the record of the handler that returned in the last step, Idle when
\* none did.
Step(w0, w) ==
    /\ inflight' = ((inflight (-) (IF w0 = Idle THEN EmptyBag ELSE SetToBag({w0})))
                       (+) (IF w.pc = "done" THEN EmptyBag ELSE SetToBag({w})))
    /\ ret' = IF w.pc = "done" THEN w ELSE Idle

Begin(op, no) == [Idle EXCEPT !.op = op, !.no = no, !.seen = RowOf(db, no)]

\* The handler w after it called the methods in ms.
Called(w, ms) == [w EXCEPT !.calls = @ \cup ms]

\* sqlx::Error mapped to DatabaseError: what a repository method returns when
\* the statement fails.
DbFailure == Error("DatabaseError")

\* create_payment up to and including repository.save.
CreateSave ==
    /\ Free
    /\ \E req \in CreateRequests, dbUp \in BOOLEAN :
         LET w == [Begin("create_payment", req.out_order_no) EXCEPT !.req = Some(req)]
             n == PaymentOrderNew(nextId, req.out_order_no, req.amount, req.payment_method, req.description, req.client_ip, req.openid, req.attach, now)
             sv == save(db, Unwrap(n.order))
             ws == Called(w, {"save"})
         IN IF ~n.ok
            THEN /\ Step(Idle, Fail(w, None, n.err))
                 /\ UNCHANGED <<db, nextId>>
            ELSE IF ~dbUp
            THEN /\ nextId' = nextId + 1
                 /\ Step(Idle, Fail(ws, n.order, DbFailure))
                 /\ UNCHANGED db
            ELSE /\ nextId' = nextId + 1
                 /\ db' = sv.table
                 /\ Step(Idle,
                        IF sv.ok THEN [ws EXCEPT !.pc = "create_saved", !.order = n.order]
                        ELSE Fail(ws, n.order, sv.err))
    /\ opsLeft' = opsLeft - 1
    /\ UNCHANGED <<now, domVars, io>>

\* create_payment from the gateway call to the response: the gateway's
\* create order call, set_prepay_id, repository.update, generate_mini_pay_params.
\* The adapter refuses a request without openid before it sends anything; gw
\* is the answer to the HTTP request when one was sent.
CreateFinish ==
    \E w \in InFlight :
      /\ w.pc = "create_saved"
      /\ \E g \in CreateOrderResults, paramsOk \in BOOLEAN, dbUp \in BOOLEAN :
           LET o == Unwrap(w.order)
               sp == set_prepay_id(o, g.prepay_id, now)
               up == update(db, sp.order)
               rq == create_mini_program_order_request(GoodPrivateKey, [out_order_no |-> o.out_order_no, openid |-> o.openid])
               wc == Called(w, {"create_mini_program_order"})
               wg == [wc EXCEPT !.gw = Some(g)]
               wu == Called(wg, {"update"})
               wp == Called([wu EXCEPT !.updated = TRUE], {"generate_mini_pay_params"})
           IN IF ~rq.ok
              THEN /\ Step(w, Fail(wc, w.order, rq.err))
                   /\ UNCHANGED db
              ELSE IF ~g.ok
              THEN /\ Step(w, Fail(wg, w.order, Error("WeChatPayError")))
                   /\ UNCHANGED db
              ELSE IF ~dbUp
              THEN /\ Step(w, Fail(wu, Some(sp.order), DbFailure))
                   /\ UNCHANGED db
              ELSE /\ db' = up.table
                   /\ Step(w,
                          IF ~up.ok THEN Fail(wu, Some(sp.order), up.err)
                          ELSE IF ~paramsOk THEN Fail(wp, Some(sp.order), Error("CryptoError"))
                          ELSE Succeed(wp, Some(sp.order),
                                       Some(Response(sp.order, g.prepay_id, Some("pay_params")))))
      /\ UNCHANGED <<now, nextId, opsLeft, domVars, io>>

\* query_payment up to the gateway call: find_by_out_order_no and, for a
\* finished order, the response.
QueryLoad ==
    /\ Free
    /\ \E no \in OrderNos, dbUp \in BOOLEAN :
         LET w == Called(Begin("query_payment", no), {"find_by_out_order_no"})
             f == find_by_out_order_no(db, no)
             o == Unwrap(f)
             wl == [w EXCEPT !.loaded = f]
         IN Step(Idle,
                IF ~dbUp THEN Fail(w, None, DbFailure)
                ELSE IF f = None THEN Fail(w, None, Error("OrderNotFound"))
                ELSE IF is_finished(o)
                THEN Succeed(wl, f, Some(Response(o, IF IsSome(o.prepay_id) THEN Unwrap(o.prepay_id) ELSE "", None)))
                ELSE [wl EXCEPT !.pc = "query_loaded", !.order = f])
    /\ opsLeft' = opsLeft - 1
    /\ UNCHANGED <<now, db, nextId, domVars, io>>

\* The transition query_payment applies for a gateway answer.
QueryTransition(o, q, t) ==
    IF q.trade_state = "SUCCESS"
    THEN IF IsSome(q.transaction_id)
         THEN [applied |-> TRUE, r |-> mark_as_succeeded(o, Unwrap(q.transaction_id), t)]
         ELSE [applied |-> FALSE, r |-> Ok(o)]
    ELSE IF q.trade_state = "CLOSED"
    THEN [applied |-> TRUE, r |-> mark_as_closed(o, t)]
    ELSE IF q.trade_state = "PAYERROR"
    THEN [applied |-> TRUE, r |-> mark_as_failed(o, t)]
    ELSE [applied |-> FALSE, r |-> Ok(o)]

\* query_payment from the gateway's query_order to the response.
QueryFinish ==
    \E w \in InFlight :
      /\ w.pc = "query_loaded"
      /\ \E q \in QueryOrderResults, dbUp \in BOOLEAN :
           LET o == Unwrap(w.order)
               tr == QueryTransition(o, q, now)
               up == update(db, tr.r.order)
               o2 == tr.r.order
               resp == Some(Response(o2, IF IsSome(o2.prepay_id) THEN Unwrap(o2.prepay_id) ELSE "", None))
               wq == [Called(w, {"query_order"}) EXCEPT !.gw = Some(q)]
               wu == Called(wq, {"update"})
           IN IF ~q.ok
              THEN /\ Step(w, Fail(wq, w.order, Error("WeChatPayError")))
                   /\ UNCHANGED db
              ELSE IF ~tr.applied
              THEN /\ Step(w, Succeed(wq, w.order, resp))
                   /\ UNCHANGED db
              ELSE IF ~tr.r.ok
              THEN /\ Step(w, Fail(wq, w.order, tr.r.err))
                   /\ UNCHANGED db
              ELSE IF ~dbUp
              THEN /\ Step(w, Fail(wu, Some(o2), DbFailure))
                   /\ UNCHANGED db
              ELSE /\ db' = up.table
                   /\ Step(w,
                          IF up.ok THEN Succeed([wu EXCEPT !.updated = TRUE], Some(o2), resp)
                          ELSE Fail(wu, Some(o2), up.err))
      /\ UNCHANGED <<now, nextId, opsLeft, domVars, io>>

\* x and w are TRANSACTION.SUCCESS deliveries for the same order number and
\* transaction id, and both arrived while the order was Pending.
SameDelivery(x, w) ==
    /\ x.op = "handle_payment_notification"
    /\ w.event = "TRANSACTION.SUCCESS" /\ x.event = w.event
    /\ IsSome(w.tx) /\ x.tx = w.tx
    /\ x.no = w.no
    /\ IsSome(w.seen) /\ Unwrap(w.seen).state = "pending"
    /\ IsSome(x.seen) /\ Unwrap(x.seen).state = "pending"

\* x, marked as having a second delivery w in flight beside it.
MarkDup(x, w) == IF SameDelivery(x, w) THEN [x EXCEPT !.dup = TRUE] ELSE x

RECURSIVE Copies(_, _)
\* The number of copies the bag B holds of the elements of S.
Copies(S, B) ==
    IF S = {} THEN 0
    ELSE LET x == CHOOSE y \in S : TRUE IN CopiesIn(x, B) + Copies(S \ {x}, B)

\* The requests in flight, each marked by MarkDup for the arriving w.
Marked(w) ==
    [y \in {MarkDup(x, w) : x \in InFlight} |-> Copies({x \in InFlight : MarkDup(x, w) = y}, inflight)]

\* handle_payment_notification up to the repository read, for a notification
\* of type event_type whose decrypt_notification answered dec: the `?` on the
\* decryption, serde_json::from_str and the lookup of out_trade_no.  d is the
\* delivery the notification came in.
Receive(event_type, dec, d) ==
    LET json == IF dec.ok THEN Unwrap(dec.val).json ELSE None
        no == IF IsSome(json) /\ IsSome(Unwrap(json).out_trade_no)
              THEN Unwrap(Unwrap(json).out_trade_no) ELSE <<>>
        tx == IF IsSome(json) THEN Unwrap(json).transaction_id ELSE None
        w == [Called(Begin("handle_payment_notification", no), {"decrypt_notification"})
                 EXCEPT !.event = event_type, !.tx = tx, !.delivery = d]
    IN IF ~dec.ok THEN Step(Idle, Fail(w, None, dec.err))
       ELSE IF json = None THEN Step(Idle, Fail(w, None, Error("SerializationError")))
       ELSE IF Unwrap(json).out_trade_no = None THEN Step(Idle, Fail(w, None, Error("ValidationError")))
       ELSE /\ inflight' = Marked(w) (+) SetToBag({[w EXCEPT !.pc = "notify_received",
                                                     !.dup = \E x \in InFlight : SameDelivery(x, w)]})
            /\ ret' = Idle

\* handle_payment_notification up to the repository read, called with a
\* notification at the port.
NotifyReceive ==
    /\ Free
    /\ \E n \in NotificationInputs : Receive(n.event_type, PortDecrypt(n), None)
    /\ opsLeft' = opsLeft - 1
    /\ UNCHANGED <<now, db, nextId, domVars, io>>

\* wechat_webhook up to the repository read: the three header checks, the
\* parse of the body, and handle_payment_notification decrypting the resource
\* with the adapter.  The signature header is read and not verified.
WebhookReceive ==
    /\ Free
    /\ \E d \in DeliveryInputs :
         LET r == d.resource
             dec == decrypt_notification(ApiV3Key, r.ciphertext, r.associated_data, r.nonce)
         IN IF ~d.headers \/ ~d.body
            THEN Step(Idle, Done([Begin("wechat_webhook", <<>>) EXCEPT !.delivery = Some(d)], None, NoRes))
            ELSE Receive(d.event_type, dec, Some(d))
    /\ opsLeft' = opsLeft - 1
    /\ UNCHANGED <<now, db, nextId, domVars, io>>

\* A match on the event type that takes every event for a payment success.
IsSuccessEvent_any(event_type) == TRUE

\* match notification.event_type.as_str(): the arm "TRANSACTION.SUCCESS".
IsSuccessEvent(event_type) == event_type = "TRANSACTION.SUCCESS"

\* handle_payment_notification: find_by_out_order_no, then the match on the
\* event type up to the lookup of transaction_id.
NotifyLoad ==
    \E w \in InFlight :
      /\ w.pc = "notify_received"
      /\ \E dbUp \in BOOLEAN :
         LET f == find_by_out_order_no(db, w.no)
             wf == Called(w, {"find_by_out_order_no"})
             wl == [wf EXCEPT !.loaded = f]
         IN Step(w,
                IF ~dbUp THEN Fail(wf, None, DbFailure)
                ELSE IF f = None THEN Fail(wf, None, Error("OrderNotFound"))
                ELSE IF ~IsSuccessEvent(w.event) THEN Succeed(wl, f, None)
                ELSE IF w.tx = None THEN Fail(wl, f, Error("ValidationError"))
                ELSE [wl EXCEPT !.pc = "notify_loaded", !.order = f])
      /\ UNCHANGED <<now, db, nextId, opsLeft, domVars, io>>

\* handle_payment_notification: mark_as_succeeded and repository.update.
NotifyFinish ==
    \E w \in InFlight :
      /\ w.pc = "notify_loaded"
      /\ \E dbUp \in BOOLEAN :
         LET o == Unwrap(w.order)
             ms == mark_as_succeeded(o, Unwrap(w.tx), now)
             up == update(db, ms.order)
             wu == Called(w, {"update"})
         IN IF ~ms.ok
            THEN /\ Step(w, Fail(w, w.order, ms.err))
                 /\ UNCHANGED db
            ELSE IF ~dbUp
            THEN /\ Step(w, Fail(wu, Some(ms.order), DbFailure))
                 /\ UNCHANGED db
            ELSE /\ db' = up.table
                 /\ Step(w,
                        IF up.ok THEN Succeed([wu EXCEPT !.updated = TRUE], Some(ms.order), None)
                        ELSE Fail(wu, Some(ms.order), up.err))
      /\ UNCHANGED <<now, nextId, opsLeft, domVars, io>>

Next ==
    \/ Tick
    \/ CreateSave
    \/ CreateFinish
    \/ QueryLoad
    \/ QueryFinish
    \/ NotifyReceive
    \/ NotifyLoad
    \/ NotifyFinish

Spec == Init /\ [][Next]_vars

\* query_payment alone, over a table that holds no row or one row in any
\* state.
InitQuery ==
    /\ order = None
    /\ origin = "none"
    /\ last = NoCall
    /\ now = 0
    /\ db \in {{}} \cup {{r} : r \in RowInputs}
    /\ nextId = 1
    /\ inflight = EmptyBag
    /\ ret = Idle
    /\ opsLeft = MaxOps
    /\ io = NoIo

NextQuery ==
    \/ Tick
    \/ QueryLoad
    \/ QueryFinish

SpecQuery == InitQuery /\ [][NextQuery]_vars

\* The rows the orchestrator writes: transaction_id and paid_at are set by
\* mark_as_succeeded alone, so a row has both when it is succeeded or refunded
\* and neither otherwise.
WrittenRows ==
    {r \in RowInputs : /\ IsSome(r.transaction_id) <=> r.state \in {"succeeded", "refunded"}
                       /\ IsSome(r.paid_at) <=> IsSome(r.transaction_id)}

InitWebhook ==
    /\ order = None
    /\ origin = "none"
    /\ last = NoCall
    /\ now = 0
    /\ db \in {{}} \cup {{r} : r \in WrittenRows}
    /\ nextId = 1
    /\ inflight = EmptyBag
    /\ ret = Idle
    /\ opsLeft = MaxOps
    /\ io = NoIo

\* The webhook alone, with the adapter decrypting, over a table that holds no
\* row or one row in any state.
NextWebhook ==
    \/ Tick
    \/ WebhookReceive
    \/ NotifyLoad
    \/ NotifyFinish

SpecWebhook == InitWebhook /\ [][NextWebhook]_vars

\* The domain operations called directly on an order, or the orchestrator
\* serving requests: every behaviour of SpecDomain and every behaviour of Spec.
NextBoth ==
    \/ last = NoCall /\ Next
    \/ opsLeft = MaxOps /\ NextDomain

SpecBoth == Init /\ [][NextBoth]_vars

----------------------------------------------------------------------------
(* The functions of the adapter and of the repository, called on their own *)

\* What the calls below leave alone.
restVars == <<order, origin, last, now, db, nextId, inflight, ret, opsLeft>>

\* Strings for the parts of a signed message: empty, two letters, a newline.
Strs == {<<>>, <<"a">>, <<"b">>, NL}
MessageInputs == Strs \X Strs \X Strs \X Strs \X Strs

\* config.appid, and the values generate_mini_pay_params reads from the clock
\* and from generate_nonce_str.
AppId == <<"w", "x", "1">>
TimestampInputs == {<<"0">>, <<"1">>}
NonceStrInputs == {<<"u", "1">>, <<"u", "2">>}
PrepayIdInputs == {<<>>, <<"p", "p", "1">>}

\* An api_v3_key that is not 32 bytes long.
ShortKey == Rep("k", 16)

\* Rows as the table can hold them after a write by another program: the
\* known tokens, and a state or a payment_method that is none of them.
LoadInputs ==
    RowInputs
    \cup {[r EXCEPT !.state = "unknown"] : r \in {x \in RowInputs : x.state = "pending"}}
    \cup {[r EXCEPT !.payment_method = m] : r \in {x \in RowInputs : x.state = "pending"},
                                            m \in MethodTokens \cup {"wap"}}

\* Ok(result.map(|row| row.into_order())) of the find_* methods, for the row
\* the query fetched: into_order panics on a token it does not know.
MapIntoOrder(row) ==
    IF ParseMethod(row.payment_method) = "panic" \/ ParseState(row.state) = "panic"
    THEN Panic
    ELSE Value(into_order(row))

\* Merchant order numbers a gateway call is made for: a plain one, and one
\* that holds the text of the base URL.
GatewayOrderNos == {T1, <<"a">> \o BaseUrl}

\* WeChatPayRequest: with and without openid.
GatewayRequests ==
    {[out_order_no |-> no, openid |-> oid] : no \in GatewayOrderNos, oid \in OpenidInputs}

CallCreateOrder ==
    /\ \E key \in {GoodPrivateKey, BadPrivateKey}, request \in GatewayRequests :
         io' = [op |-> "create_mini_program_order", key |-> key, request |-> request,
                out |-> create_mini_program_order_request(key, request)]
    /\ UNCHANGED restVars

CallQueryOrder ==
    /\ \E key \in {GoodPrivateKey, BadPrivateKey}, no \in GatewayOrderNos :
         io' = [op |-> "query_order", key |-> key, out |-> query_order_request(key, no)]
    /\ UNCHANGED restVars

CallCloseOrder ==
    /\ \E key \in {GoodPrivateKey, BadPrivateKey}, no \in GatewayOrderNos :
         io' = [op |-> "close_order", key |-> key, out |-> close_order_request(key, no)]
    /\ UNCHANGED restVars

\* The width of the integer type of Money.amount_cents.  The type is i64;
\* the model keeps two's complement arithmetic at a width the checker's
\* integers can hold, and every input below is placed relative to it.
IntBits == 16
IntMax == 2^(IntBits - 1) - 1
IntMin == -(2^(IntBits - 1))

\* The value of the mathematical integer x in the integer type, as wrapping
\* arithmetic yields it.
Wrap(x) ==
    LET r == x % 2^IntBits
    IN IF r > IntMax THEN r - 2^IntBits ELSE r

\* Money::from_yuan: amount * 100.  When the product does not fit the type
\* the multiplication panics in a build with overflow checks and wraps in a
\* build without them.
from_yuan(amount, overflow_checks) ==
    IF amount * 100 \in IntMin..IntMax THEN Value([amount_cents |-> amount * 100])
    ELSE IF overflow_checks THEN Panic
    ELSE Value([amount_cents |-> Wrap(amount * 100)])

\* Money::from_cents
from_cents(cents) == [amount_cents |-> cents]

\* Money::to_cents
to_cents(money) == money.amount_cents

\* Amounts in major units: small ones, the largest whose hundredfold fits
\* the type, the next one, and the ends of the type.
YuanInputs ==
    {0, 1, -1, 10, IntMax \div 100, IntMax \div 100 + 1, -(IntMax \div 100), -(IntMax \div 100) - 2,
     IntMax, IntMin}

CentsInputs == {0, 1, -1, 1000, IntMax, IntMin}

CallFromYuan ==
    /\ \E n \in YuanInputs, overflow_checks \in BOOLEAN :
         io' = [op |-> "from_yuan", n |-> n, out |-> from_yuan(n, overflow_checks)]
    /\ UNCHANGED restVars

CallFromCents ==
    /\ \E c \in CentsInputs :
         io' = [op |-> "from_cents", n |-> c, out |-> Value(from_cents(c))]
    /\ UNCHANGED restVars

CallDecrypt ==
    /\ \E key \in {ApiV3Key, ShortKey}, r \in ResourceInputs :
         io' = [op |-> "decrypt_callback_data", key |-> key, resource |-> r,
                out |-> decrypt_callback_data(key, r.ciphertext, r.associated_data, r.nonce)]
    /\ UNCHANGED restVars

CallBuildSignature ==
    /\ \E key \in {GoodPrivateKey, BadPrivateKey}, a \in MessageInputs :
         io' = [op |-> "build_signature", key |-> key, args |-> a,
                message |-> CanonicalMessage(a[1], a[2], a[3], a[4], a[5]),
                out |-> build_signature(key, a[1], a[2], a[3], a[4], a[5])]
    /\ UNCHANGED restVars

CallMiniPayParams ==
    /\ \E key \in {GoodPrivateKey, BadPrivateKey}, p \in PrepayIdInputs,
          t \in TimestampInputs, n \in NonceStrInputs :
         io' = [op |-> "generate_mini_pay_params", key |-> key, prepay_id |-> p,
                timestamp |-> t, nonce_str |-> n,
                out |-> generate_mini_pay_params(AppId, key, p, t, n)]
    /\ UNCHANGED restVars

CallFind ==
    /\ \E row \in LoadInputs :
         io' = [op |-> "find_by_out_order_no", row |-> row, out |-> MapIntoOrder(row)]
    /\ UNCHANGED restVars

NextAdapter ==
    \/ CallDecrypt
    \/ CallBuildSignature
    \/ CallMiniPayParams
    \/ CallFind
    \/ CallFromYuan
    \/ CallFromCents
    \/ CallCreateOrder
    \/ CallQueryOrder
    \/ CallCloseOrder

SpecAdapter == Init /\ [][NextAdapter]_vars

----------------------------------------------------------------------------
(* api/handlers.rs: the status of the response *)

\* create_payment: 201, or the status the match on the error picks.
create_payment_status(res) ==
    IF res.ok THEN 201
    ELSE IF res.err.kind \in {"ValidationError", "InvalidAmount"} THEN 400
    ELSE 500

\* query_payment: 200, or the status the match on the error picks.
query_payment_status(res) ==
    IF res.ok THEN 200
    ELSE IF res.err.kind = "OrderNotFound" THEN 404
    ELSE 500

\* No response: the handler panicked and the connection was dropped.
NoResponse == 0

\* wechat_webhook, for the request w that returned: 400 when a header is
\* missing or the body does not parse, 200 when handle_payment_notification
\* returned Ok and 500 for every error it returned.
wechat_webhook_status(w) ==
    IF w.op = "wechat_webhook" THEN 400
    ELSE IF w.res.ok THEN 200
    ELSE IF w.res.err = Panic.err THEN NoResponse
    ELSE 500

\* The status of the response to the request w that returned.
Status(w) ==
    IF w.op = "create_payment" THEN create_payment_status(w.res)
    ELSE IF w.op = "query_payment" THEN query_payment_status(w.res)
    ELSE wechat_webhook_status(w)

----------------------------------------------------------------------------
(* Properties of the orchestrator (Spec) *)

\* handle_payment_notification returned for a TRANSACTION.SUCCESS event
\* carrying transaction id tx for order number no.
DeliveredSuccess(no, tx) ==
    /\ ret.pc = "done"
    /\ ret.op = "handle_payment_notification"
    /\ ret.event = "TRANSACTION.SUCCESS"
    /\ ret.no = no
    /\ ret.tx = Some(tx)

\* The row is Succeeded with transaction id tx.
SucceededWith(row, tx) ==
    /\ IsSome(row)
    /\ Unwrap(row).state = "succeeded"
    /\ Unwrap(row).transaction_id = Some(tx)

\* C1: a TRANSACTION.SUCCESS notification for an order that is already
\* persisted as Succeeded with the same transaction id returns success, never
\* InvalidState, and leaves the persisted order unchanged, on every delivery.
C1_RedeliveryIsNoOp ==
    \A tx \in TxIds :
        (/\ DeliveredSuccess(T1, tx)
         /\ SucceededWith(ret.seen, tx)
         /\ IsSome(ret.loaded)
         /\ SucceededWith(Some(ToRow(Unwrap(ret.loaded))), tx))
        => /\ ret.res.ok
           /\ ret.res.err.kind # "InvalidState"
           /\ ~ret.updated

\* C2: once the persisted order is Succeeded, no later repository update
\* overwrites it with a different state, a null transaction id or a null
\* paid_at.
C2_SucceededNotOverwritten ==
    [][\A r \in db : r.state = "succeeded" =>
          \E r2 \in db' : /\ r2.id = r.id
                          /\ r2.state = "succeeded"
                          /\ IsSome(r2.transaction_id)
                          /\ IsSome(r2.paid_at)]_vars

\* C3: when two deliveries of the same TRANSACTION.SUCCESS notification for
\* one Pending order are in flight together, neither delivery returns an
\* error, and once both have returned the persisted order is Succeeded with
\* that transaction id.
C3_ConcurrentDeliveries ==
    \A tx \in TxIds :
        (DeliveredSuccess(T1, tx) /\ ret.dup)
        => /\ ret.res.ok
           /\ (\A x \in InFlight : ~(x.dup /\ x.no = T1 /\ x.tx = Some(tx)))
                 => SucceededWith(RowOf(db, T1), tx)

----------------------------------------------------------------------------
(* Properties of the domain machine (SpecDomain) *)

Before == Unwrap(last.before)
Cur == Unwrap(order)

\* C4: for an order built by new and changed only through the mark_as_* and
\* set_prepay_id operations, paid_at is set if and only if the state is
\* Succeeded, and transaction_id is set only if the state is Succeeded.
C4_PaidAtIffSucceeded ==
    (origin = "new" /\ IsSome(order)) =>
        /\ IsSome(Cur.paid_at) <=> Cur.state = "Succeeded"
        /\ IsSome(Cur.transaction_id) => Cur.state = "Succeeded"

\* A Succeeded order built by new on which a later transition was refused.
C4_Witness ==
    /\ origin = "new"
    /\ IsSome(order)
    /\ Cur.state = "Succeeded"
    /\ IsSome(Cur.paid_at)
    /\ last.op \in {"mark_as_failed", "mark_as_closed", "mark_as_processing"}
    /\ ~last.ok

\* C5: mark_as_succeeded succeeds exactly from Pending or Processing and then
\* sets state Succeeded, the given transaction id and a non-null paid_at; from
\* Succeeded, Failed, Closed or Refunded it fails with InvalidState.
C5_MarkSucceeded ==
    last.op = "mark_as_succeeded" =>
        /\ last.ok <=> Before.state \in {"Pending", "Processing"}
        /\ last.ok =>
              /\ Cur.state = "Succeeded"
              /\ Cur.transaction_id = Some(last.args[1])
              /\ IsSome(Cur.paid_at)
        /\ Before.state \in {"Succeeded", "Failed", "Closed", "Refunded"} =>
              /\ ~last.ok
              /\ last.err.kind = "InvalidState"
              /\ Cur = Before

\* mark_as_succeeded applied to a Processing order.
C5_Witness ==
    /\ last.op = "mark_as_succeeded"
    /\ last.ok
    /\ Before.state = "Processing"
    /\ Cur.state = "Succeeded"

\* C6: mark_as_closed fails with InvalidState from Succeeded or Refunded and
\* succeeds from Pending, Processing, Failed and Closed, setting state Closed.
C6_MarkClosed ==
    last.op = "mark_as_closed" =>
        /\ Before.state \in {"Succeeded", "Refunded"} =>
              /\ ~last.ok
              /\ last.err.kind = "InvalidState"
              /\ Cur = Before
        /\ Before.state \in {"Pending", "Processing", "Failed", "Closed"} =>
              /\ last.ok
              /\ Cur.state = "Closed"

\* mark_as_closed refused on a Refunded order.
C6_Witness ==
    /\ last.op = "mark_as_closed"
    /\ ~last.ok
    /\ Before.state = "Refunded"

\* C7: mark_as_processing succeeds only from Pending and then sets state
\* Processing; from every other state it fails with InvalidState whose
\* expected value is Pending and whose actual value is the current state.
C7_MarkProcessing ==
    last.op = "mark_as_processing" =>
        /\ last.ok <=> Before.state = "Pending"
        /\ last.ok => Cur.state = "Processing"
        /\ ~last.ok =>
              /\ last.err.kind = "InvalidState"
              /\ last.err.expected = "pending"
              /\ last.err.actual = StateToString(Before.state)
              /\ Cur = Before

\* mark_as_processing refused on an order that is not Pending.
C7_Witness ==
    /\ last.op = "mark_as_processing"
    /\ ~last.ok
    /\ Before.state = "Failed"
    /\ last.err.actual = "failed"

\* C8: mark_as_failed succeeds exactly from Pending or Processing and then
\* sets state Failed, leaving paid_at and transaction_id as they were; from
\* Succeeded, Failed, Closed or Refunded it fails with InvalidState.
C8_MarkFailed ==
    last.op = "mark_as_failed" =>
        /\ last.ok <=> Before.state \in {"Pending", "Processing"}
        /\ last.ok =>
              /\ Cur.state = "Failed"
              /\ Cur.paid_at = Before.paid_at
              /\ Cur.transaction_id = Before.transaction_id
        /\ Before.state \in {"Succeeded", "Failed", "Closed", "Refunded"} =>
              /\ ~last.ok
              /\ last.err.kind = "InvalidState"
              /\ Cur = Before

\* mark_as_failed applied to a Processing order.
C8_Witness ==
    /\ last.op = "mark_as_failed"
    /\ last.ok
    /\ Before.state = "Processing"
    /\ Cur.state = "Failed"

\* C9: can_pay is true iff the state is Pending, is_finished is true iff the
\* state is Succeeded, Failed or Closed; they are never both true and both
\* are false exactly when the state is Processing or Refunded.
C9_CanPayIsFinished ==
    IsSome(order) =>
        /\ can_pay(Cur) <=> Cur.state = "Pending"
        /\ is_finished(Cur) <=> Cur.state \in {"Succeeded", "Failed", "Closed"}
        /\ ~(can_pay(Cur) /\ is_finished(Cur))
        /\ (~can_pay(Cur) /\ ~is_finished(Cur)) <=> Cur.state \in {"Processing", "Refunded"}

\* A Refunded order: neither payable nor finished.
C9_Witness ==
    /\ IsSome(order)
    /\ Cur.state = "Refunded"
    /\ ~can_pay(Cur)
    /\ ~is_finished(Cur)

\* C10: new returns InvalidAmount when the amount is zero or negative, and
\* ValidationError when the merchant order number is empty or longer than 64
\* characters or the description is empty or longer than 127 characters; no
\* order is produced then, and every input inside the three bounds is accepted.
C10_NewValidation ==
    last.op = "new" =>
        LET no == last.args[1]
            a  == last.args[2]
            d  == last.args[3]
            noOk == CharCount(no) >= 1 /\ CharCount(no) <= 64
            dOk  == CharCount(d) >= 1 /\ CharCount(d) <= 127
        IN /\ a <= 0 => (~last.ok /\ last.err.kind = "InvalidAmount" /\ order = None)
           /\ (a > 0 /\ (~noOk \/ ~dOk)) =>
                 (~last.ok /\ last.err.kind = "ValidationError" /\ order = None)
           /\ (a > 0 /\ noOk /\ dOk) => (last.ok /\ IsSome(order))

\* C11: every order returned by a successful new is Pending, has
\* transaction_id, paid_at and prepay_id empty, has created_at equal to
\* updated_at, and carries the amount, method, description, client address,
\* payer identity and attach exactly as given.
C11_NewOrder ==
    (last.op = "new" /\ last.ok) =>
        /\ IsSome(order)
        /\ Cur.state = "Pending"
        /\ Cur.transaction_id = None
        /\ Cur.paid_at = None
        /\ Cur.prepay_id = None
        /\ Cur.created_at = Cur.updated_at
        /\ Cur.out_order_no = last.args[1]
        /\ Cur.amount = last.args[2]
        /\ Cur.description = last.args[3]
        /\ Cur.payment_method = last.args[4]
        /\ Cur.openid = last.args[5]
        /\ Cur.attach = last.args[6]
        /\ Cur.client_ip = ClientIp

\* An order just built with a payer identity and no attach, after the clock
\* has moved.
C11_Witness ==
    /\ last.op = "new"
    /\ last.ok
    /\ now > 0
    /\ Cur.openid = Some("oid1")
    /\ Cur.attach = None
    /\ Cur.payment_method = "Native"

\* C12: set_prepay_id succeeds in every state of the order, stores the given
\* token, and changes no field other than prepay_id and updated_at.
C12_SetPrepayId ==
    last.op = "set_prepay_id" =>
        /\ last.ok
        /\ Cur.prepay_id = Some(last.args[1])
        /\ [Cur EXCEPT !.prepay_id = Before.prepay_id, !.updated_at = Before.updated_at] = Before

\* set_prepay_id applied to a Refunded order.
C12_Witness ==
    /\ last.op = "set_prepay_id"
    /\ last.ok
    /\ Before.state = "Refunded"
    /\ Cur.state = "Refunded"
    /\ Cur.prepay_id = Some("pp_1")

\* The fields of an order that are set at creation only.
Immutable(o) ==
    [id |-> o.id, out_order_no |-> o.out_order_no, amount |-> o.amount,
     payment_method |-> o.payment_method, description |-> o.description,
     openid |-> o.openid, client_ip |-> o.client_ip, attach |-> o.attach,
     created_at |-> o.created_at]

\* C13: after creation no domain transition and no orchestrator operation
\* changes id, merchant order number, amount, method, description, payer
\* identity, client address, attach or created_at: a domain operation leaves
\* them as they were, every persisted row keeps them in every step, and the
\* order a handler holds or returned agrees on them with the persisted row of
\* the same id.
C13_ImmutableFields ==
    [][/\ (IsSome(order) /\ last' # last /\ last'.op \notin {"new", "into_order"})
            => IsSome(order') /\ Immutable(Unwrap(order')) = Immutable(Unwrap(order))
       /\ \A r \in db : \E r2 \in db' : r2.id = r.id /\ Immutable(r2) = Immutable(r)
       /\ \A w \in BagToSet(inflight') \cup {ret'} : \A r \in db' :
            (IsSome(w.order) /\ Unwrap(w.order).id = r.id)
                => Immutable(Unwrap(w.order)) = Immutable(into_order(r))]_vars

\* query_payment returned an order it moved to Succeeded and wrote back,
\* later than the order was created.
C13_Witness ==
    /\ ret.op = "query_payment"
    /\ ret.updated
    /\ Unwrap(ret.order).state = "Succeeded"
    /\ Unwrap(ret.order).updated_at > Unwrap(ret.order).created_at
    /\ \E r \in db : r.id = Unwrap(ret.order).id /\ r.state = "succeeded" /\ r.updated_at > r.created_at

C15_RejectedCreate ==
    /\ (ret.op = "create_payment" /\ Unwrap(ret.req).amount <= 0)
         => ~ret.res.ok /\ ret.res.err.kind = "InvalidAmount" /\ ret.calls = {} /\ ret.order = None
    /\ (ret.op = "create_payment" /\ (Unwrap(ret.req).out_order_no = <<>> \/ Unwrap(ret.req).description = <<>>))
         => ~ret.res.ok /\ ret.calls = {} /\ ret.order = None
    /\ \A w \in InFlight : w.op = "create_payment" =>
         /\ Unwrap(w.req).amount > 0
         /\ Unwrap(w.req).out_order_no # <<>>
         /\ Unwrap(w.req).description # <<>>
    /\ \A r \in db : r.amount > 0 /\ r.description # <<>>

\* A request with amount 0 was rejected while the table holds an order, and
\* the handler called nothing.
C15_Witness ==
    /\ ret.op = "create_payment"
    /\ Unwrap(ret.req).amount = 0
    /\ ret.res.err.kind = "InvalidAmount"
    /\ ret.calls = {}
    /\ db # {}

\* C16: the table holds at most one order per merchant order number, and a
\* create_payment for a number that already has a persisted order fails at
\* repository save and makes no gateway create order call.
C16_OneOrderPerNumber ==
    /\ \A r1, r2 \in db : r1.out_order_no = r2.out_order_no => r1 = r2
    /\ (ret.op = "create_payment" /\ IsSome(ret.seen) /\ IsSome(ret.order))
         => /\ ~ret.res.ok
            /\ ret.res.err.kind = "DatabaseError"
            /\ ret.calls = {"save"}
    /\ \A w \in InFlight : w.op = "create_payment" => w.seen = None

\* A second create_payment for the number of a persisted order was refused at
\* save although the database was reachable, and the table still holds the
\* first order only.
C16_Witness ==
    /\ ret.op = "create_payment"
    /\ IsSome(ret.seen)
    /\ IsSome(ret.order)
    /\ ~ret.res.ok
    /\ Cardinality(db) = 1
    /\ \A r \in db : r.id # Unwrap(ret.order).id /\ r.id = Unwrap(ret.seen).id

\* C17: when create_payment succeeds the response has state "pending", the
\* requested amount, the prepay token the gateway returned and payment
\* parameters, and the persisted order is Pending with that prepay token; a
\* query_payment that succeeds returns the prepay token of the order it loaded.
C17_CreateSuccess ==
    /\ (ret.op = "create_payment" /\ ret.res.ok)
         => LET resp == Unwrap(ret.res.resp)
                row == RowOf(db, ret.no)
            IN /\ resp.state = "pending"
               /\ resp.amount = Unwrap(ret.req).amount
               /\ resp.out_order_no = ret.no
               /\ resp.prepay_id = Unwrap(ret.gw).prepay_id
               /\ IsSome(resp.pay_params)
               /\ IsSome(row)
               /\ Unwrap(row).id = resp.order_id
               /\ Unwrap(row).state = "pending"
               /\ Unwrap(row).prepay_id = Some(resp.prepay_id)
    /\ (ret.op = "query_payment" /\ ret.res.ok /\ IsSome(Unwrap(ret.loaded).prepay_id))
         => Some(Unwrap(ret.res.resp).prepay_id) = Unwrap(ret.loaded).prepay_id

\* A query_payment after a successful create_payment returned the prepay
\* token for the still Pending order.
C17_Witness ==
    /\ ret.op = "query_payment"
    /\ ret.res.ok
    /\ Unwrap(ret.res.resp).prepay_id = "pp_1"
    /\ Unwrap(ret.res.resp).state = "pending"
    /\ Unwrap(ret.gw).trade_state = "NOTPAY"

\* The state query_payment is to return for trade state ts of an order loaded
\* in state st.
ExpectedState(ts, st) ==
    IF ts = "SUCCESS" THEN "succeeded"
    ELSE IF ts = "CLOSED" THEN "closed"
    ELSE IF ts = "PAYERROR" THEN "failed"
    ELSE StateToString(st)

\* C18: for an order that is not finished, query_payment applies the
\* transition that matches the gateway's trade state, whatever the other
\* fields of the answer: SUCCESS gives Succeeded, CLOSED gives Closed, PAYERROR
\* gives Failed, any other trade state leaves the state unchanged with no
\* repository update; the response carries the resulting state.
C18_QueryAppliesTradeState ==
    (/\ ret.op = "query_payment"
     /\ IsSome(ret.gw)
     /\ Unwrap(ret.gw).ok
     /\ ret.res.err.kind # "DatabaseError")
    => /\ ret.res.ok
       /\ Unwrap(ret.res.resp).state = ExpectedState(Unwrap(ret.gw).trade_state, Unwrap(ret.loaded).state)
       /\ Unwrap(ret.gw).trade_state \notin {"SUCCESS", "CLOSED", "PAYERROR"} => "update" \notin ret.calls

\* C19: when query_payment or handle_payment_notification applies a state
\* transition and returns success, it has called repository update with the
\* transitioned order, and on return the persisted state, transaction_id and
\* paid_at are those of the transitioned order; a SUCCESS with transaction id
\* t on a Pending order leaves the row Succeeded with transaction_id t and a
\* paid_at.
C19_TransitionPersisted ==
    (/\ ret.op \in {"query_payment", "handle_payment_notification"}
     /\ ret.res.ok
     /\ IsSome(ret.loaded)
     /\ Unwrap(ret.order).state # Unwrap(ret.loaded).state)
    => LET o == Unwrap(ret.order)
           row == RowOf(db, ret.no)
           t == IF ret.op = "query_payment" THEN Unwrap(ret.gw).transaction_id ELSE ret.tx
       IN /\ "update" \in ret.calls
          /\ IsSome(row)
          /\ Unwrap(row).id = o.id
          /\ Unwrap(row).state = StateToString(o.state)
          /\ Unwrap(row).transaction_id = o.transaction_id
          /\ Unwrap(row).paid_at = o.paid_at
          /\ o.state = "Succeeded" =>
               /\ IsSome(t)
               /\ Unwrap(row).state = "succeeded"
               /\ Unwrap(row).transaction_id = t
               /\ IsSome(Unwrap(row).paid_at)

\* A notification moved a Pending order to Succeeded and the row carries the
\* transaction id and a paid_at.
C19_Witness ==
    /\ ret.op = "handle_payment_notification"
    /\ ret.res.ok
    /\ ret.updated
    /\ Unwrap(ret.loaded).state = "Pending"
    /\ Unwrap(ret.order).state = "Succeeded"
    /\ \E r \in db : r.state = "succeeded" /\ r.transaction_id = Some("tx1") /\ IsSome(r.paid_at)

\* C20: query_payment returns OrderNotFound without calling the gateway when
\* no order exists for the number; when the loaded order is Succeeded, Failed,
\* Closed or Refunded it calls neither the gateway's query_order nor
\* repository update and returns the stored state.
C20_QueryTerminal ==
    /\ (ret.op = "query_payment" /\ ret.seen = None /\ ret.res.err.kind # "DatabaseError")
         => /\ ~ret.res.ok
            /\ ret.res.err.kind = "OrderNotFound"
            /\ ret.calls = {"find_by_out_order_no"}
    /\ (/\ ret.op = "query_payment"
        /\ IsSome(ret.loaded)
        /\ Unwrap(ret.loaded).state \in {"Succeeded", "Failed", "Closed", "Refunded"})
         => /\ ret.res.ok
            /\ ret.calls = {"find_by_out_order_no"}
            /\ Unwrap(ret.res.resp).state = StateToString(Unwrap(ret.loaded).state)

----------------------------------------------------------------------------
(* Properties of the webhook (SpecWebhook) and of the adapter *)

\* handle_payment_notification returned in the last step.
Handled == ret.pc = "done" /\ ret.op = "handle_payment_notification"

\* C21: a notification that decrypted, named an order the repository returned
\* and has an event type other than TRANSACTION.SUCCESS makes
\* handle_payment_notification return Ok with the loaded order as it was, and
\* without a call of repository.update, whatever the state of the order.
C21_OtherEventsAcknowledged ==
    (Handled /\ ret.event # "TRANSACTION.SUCCESS" /\ IsSome(ret.loaded))
        => /\ ret.res.ok
           /\ ret.order = ret.loaded
           /\ ~ret.updated
           /\ ret.calls = {"decrypt_notification", "find_by_out_order_no"}

C21_Witness ==
    /\ Handled
    /\ IsSome(ret.delivery)
    /\ ret.event = "REFUND.SUCCESS"
    /\ IsSome(ret.tx)
    /\ IsSome(ret.loaded)
    /\ Unwrap(ret.loaded).state = "Pending"
    /\ ret.res.ok
    /\ \E r \in db : r.out_order_no = ret.no /\ r.state = "pending"

\* The JSON object the adapter decrypted from the resource of the delivery of
\* w, None when it decrypted none.
DecryptedJson(w) ==
    LET r == Unwrap(w.delivery).resource
        dec == decrypt_notification(ApiV3Key, r.ciphertext, r.associated_data, r.nonce)
    IN IF IsSome(w.delivery) /\ dec.ok THEN Unwrap(dec.val).json ELSE None

\* The handler that returned failed with an error of kind k and did not call
\* repository.update.
RejectedWith(k) ==
    /\ ~ret.res.ok
    /\ ret.res.err.kind = k
    /\ "update" \notin ret.calls
    /\ ~ret.updated

\* C22: handle_payment_notification fails with ValidationError when the
\* decrypted JSON has no out_trade_no, with ValidationError when the event is
\* TRANSACTION.SUCCESS and the JSON has no transaction_id, and with
\* OrderNotFound when the JSON is complete and no order has the number; in
\* each case without an update.  Storage failures aside.
C22_RejectedNotifications ==
    (Handled /\ IsSome(DecryptedJson(ret)) /\ ret.res.err.kind # "DatabaseError")
        => LET j == Unwrap(DecryptedJson(ret))
               noTx == ret.event = "TRANSACTION.SUCCESS" /\ j.transaction_id = None
           IN /\ j.out_trade_no = None => RejectedWith("ValidationError")
              /\ (IsSome(j.out_trade_no) /\ noTx) => RejectedWith("ValidationError")
              /\ (IsSome(j.out_trade_no) /\ ~noTx /\ ret.seen = None) => RejectedWith("OrderNotFound")

\* C23: when the adapter does not return the plaintext of the resource,
\* handle_payment_notification fails with CryptoError, the webhook does not
\* answer 200, and the handler has called neither a repository read nor
\* repository.update.
C23_DecryptionFailure ==
    (/\ Handled
     /\ IsSome(ret.delivery)
     /\ LET r == Unwrap(ret.delivery).resource
        IN ~decrypt_notification(ApiV3Key, r.ciphertext, r.associated_data, r.nonce).ok)
        => /\ RejectedWith("CryptoError")
           /\ wechat_webhook_status(ret) # 200
           /\ ret.calls = {"decrypt_notification"}

\* C24: a delivery whose signature header is not the platform's signature of
\* the timestamp, nonce and body is rejected with SignatureVerificationFailed,
\* and its handler neither loads an order, nor transitions one, nor calls
\* repository.update.
C24_UnsignedRejected ==
    (ret.pc = "done" /\ IsSome(ret.delivery) /\ ~Unwrap(ret.delivery).signature_valid)
        => /\ RejectedWith("SignatureVerificationFailed")
           /\ ret.calls \cap {"find_by_out_order_no", "update"} = {}
           /\ ret.loaded = None
           /\ ret.order = None

\* C25: decrypt_callback_data, with the configured 32-byte key and a 12-byte
\* nonce, returns the plaintext of a ciphertext sealed under that key, that
\* nonce and the associated data it is given, and fails with CryptoError when
\* the ciphertext was tampered with or was sealed with other associated data.
C25_DecryptRoundTrip ==
    (io.op = "decrypt_callback_data" /\ io.key = ApiV3Key /\ StrLen(io.resource.nonce) = GcmNonceLen)
        => LET r == io.resource
               c == r.ciphertext
           IN /\ (c = Seal(io.key, r.nonce, r.associated_data, c.plain) /\ c.plain.utf8)
                    => io.out = Value(c.plain)
              /\ (~c.intact \/ c.aad # r.associated_data)
                    => ~io.out.ok /\ io.out.err.kind = "CryptoError"

\* C26: the message build_signature signs is the method, the URL path, the
\* timestamp, the nonce and the body, each followed by one newline.
C26_SignedMessage ==
    io.op = "build_signature"
        => io.message = io.args[1] \o NL \o io.args[2] \o NL \o io.args[3] \o NL
                          \o io.args[4] \o NL \o io.args[5] \o NL

\* The message build_signature builds for the five strings of a.
MessageOf(a) == CanonicalMessage(a[1], a[2], a[3], a[4], a[5])

\* The method, URL path, timestamp and nonce of a hold no newline.
HeaderFieldsOneLine(a) == \A i \in 1..4 : \A k \in 1..Len(a[i]) : a[i][k] # "\n"

\* C27 as stated: two distinct tuples (method, URL path, timestamp, nonce,
\* body) of arbitrary strings never give the same signed message.
C27_InjectiveOnAllStrings ==
    io.op = "build_signature"
        => \A b \in MessageInputs : b # io.args => MessageOf(b) # io.message

\* C27: two distinct tuples (method, URL path, timestamp, nonce, body) whose
\* method, URL path, timestamp and nonce hold no newline never give the same
\* signed message; the body may hold newlines.
C27_InjectiveOnOneLineFields ==
    (io.op = "build_signature" /\ HeaderFieldsOneLine(io.args))
        => \A b \in MessageInputs :
             (b # io.args /\ HeaderFieldsOneLine(b)) => MessageOf(b) # io.message

C27_Witness ==
    /\ io.op = "build_signature"
    /\ io.args = <<<<"a">>, <<>>, <<"b">>, <<>>, NL>>
    /\ io.message = <<"a", "\n", "\n", "b", "\n", "\n", "\n">>

\* C28: the parameters generate_mini_pay_params returns for prepay id p have
\* package "prepay_id=" followed by p, sign_type "RSA", and as pay_sign the
\* base64 of the RSA SHA-256 signature of the app id, the timestamp, the nonce
\* and the package, each followed by one newline; the timestamp and the nonce
\* signed are the ones returned.
C28_MiniPayParams ==
    (io.op = "generate_mini_pay_params" /\ io.out.ok)
        => LET v == Unwrap(io.out.val)
               package == <<"prepay_id=">> \o io.prepay_id
               message == AppId \o NL \o v.time_stamp \o NL \o v.nonce_str \o NL \o package \o NL
           IN /\ v.package = package
              /\ v.sign_type = "RSA"
              /\ v.time_stamp = io.timestamp
              /\ v.nonce_str = io.nonce_str
              /\ v.pay_sign = Base64(SignPkcs1v15Sha256(io.key, message))

\* C30: loading a row whose state or payment_method token is none of the
\* known ones returns a storage or internal error and does not abort; a row
\* with known tokens loads as the order with the state and the method the
\* tokens are the text forms of.
C30_UnknownTokens ==
    io.op = "find_by_out_order_no"
        => IF io.row.state \in StateTokens /\ io.row.payment_method \in MethodTokens
           THEN /\ io.out.ok
                /\ Unwrap(io.out.val).state \in PaymentState
                /\ Unwrap(io.out.val).payment_method \in PaymentMethod
                /\ StateToString(Unwrap(io.out.val).state) = io.row.state
                /\ MethodToString(Unwrap(io.out.val).payment_method) = io.row.payment_method
           ELSE /\ ~io.out.ok
                /\ io.out.err.kind \in {"DatabaseError", "InternalError"}

\* C29: at create payment, query payment and the webhook, a ValidationError,
\* InvalidAmount, OrderNotFound or InvalidState returned by the orchestrator
\* is answered with a 4xx status, and a storage, gateway, crypto or internal
\* error with a 5xx status.
C29_StatusClasses ==
    (ret.pc = "done" /\ ~ret.res.ok)
        => /\ ret.res.err.kind \in {"ValidationError", "InvalidAmount", "OrderNotFound", "InvalidState"}
                => Status(ret) \in 400..499
           /\ ret.res.err.kind \in {"DatabaseError", "WeChatPayError", "HttpError", "CryptoError", "InternalError"}
                => Status(ret) \in 500..599

\* C31: the Money built from n major units reports n * 100 minor units, from
\* which n is recovered by integer division by 100, for every n of the
\* integer type; the Money built from c minor units reports c.
C31_MoneyExact ==
    /\ io.op = "from_yuan"
         => /\ io.out.ok
            /\ to_cents(Unwrap(io.out.val)) = io.n * 100
            /\ to_cents(Unwrap(io.out.val)) \div 100 = io.n
    /\ io.op = "from_cents"
         => /\ io.out.ok
            /\ to_cents(Unwrap(io.out.val)) = io.n

\* The path and query string of the URL a request is sent to: the URL
\* without the leading base URL.
PathAndQuery(url) == SubSeq(url, Len(BaseUrl) + 1, Len(url))

\* C32: for create order, query order and close order, the URL signed for
\* the Authorization header is the path and query string of the URL the
\* request is sent to, without the base URL, and the body signed is the body
\* sent, which is empty for the GET of query order.
C32_SignedUrlIsPath ==
    (io.op \in {"create_mini_program_order", "query_order", "close_order"} /\ io.out.ok)
        => LET q == Unwrap(io.out.val)
           IN /\ q.signed.url = PathAndQuery(q.url)
              /\ q.signed.body = q.body
              /\ q.signed.method = q.method
              /\ io.op = "query_order" => q.method = "GET" /\ q.body = <<>>

----------------------------------------------------------------------------
(* Further properties of the domain machine and of the orchestrator *)

\* The mark_as_* operations.
Transitions == {"mark_as_processing", "mark_as_succeeded", "mark_as_failed", "mark_as_closed"}

\* C33: once an order is Succeeded, every call of mark_as_processing,
\* mark_as_succeeded, mark_as_failed or mark_as_closed fails with InvalidState,
\* and no domain operation changes its state, transaction_id or paid_at.
C33_SucceededAbsorbing ==
    [][(IsSome(order) /\ Unwrap(order).state = "Succeeded")
          => /\ IsSome(order')
             /\ Unwrap(order').state = "Succeeded"
             /\ Unwrap(order').transaction_id = Unwrap(order).transaction_id
             /\ Unwrap(order').paid_at = Unwrap(order).paid_at
             /\ (last' # last /\ last'.op \in Transitions)
                   => ~last'.ok /\ last'.err.kind = "InvalidState"]_vars

\* mark_as_succeeded with another transaction id refused on an order that
\* succeeded with tx1 at an earlier time.
C33_Witness ==
    /\ origin = "new"
    /\ last.op = "mark_as_succeeded"
    /\ last.args = <<"tx2">>
    /\ ~last.ok
    /\ Before.state = "Succeeded"
    /\ Cur.state = "Succeeded"
    /\ Cur.transaction_id = Some("tx1")
    /\ Cur.paid_at = Some(0)
    /\ now > 0

\* C34: a TRANSACTION.SUCCESS notification with a transaction id for an order
\* loaded in state Failed or Closed makes handle_payment_notification return
\* InvalidState without a call of repository.update, and the persisted row
\* keeps its state and has neither transaction id nor paid_at.
C34_LateSuccessRefused ==
    (/\ Handled
     /\ ret.event = "TRANSACTION.SUCCESS"
     /\ IsSome(ret.tx)
     /\ IsSome(ret.loaded)
     /\ Unwrap(ret.loaded).state \in {"Failed", "Closed"})
        => /\ RejectedWith("InvalidState")
           /\ RowOf(db, ret.no) = ret.seen
           /\ \E r \in db :
                /\ r.out_order_no = ret.no
                /\ r.state = StateToString(Unwrap(ret.loaded).state)
                /\ r.transaction_id = None
                /\ r.paid_at = None

C34_Witness ==
    /\ Handled
    /\ IsSome(ret.delivery)
    /\ ret.event = "TRANSACTION.SUCCESS"
    /\ ret.tx = Some("tx1")
    /\ IsSome(ret.loaded)
    /\ Unwrap(ret.loaded).state = "Closed"
    /\ ret.res.err = InvalidState("processing or pending", "closed")
    /\ \E r \in db : r.out_order_no = ret.no /\ r.state = "closed"

\* C35: a mark_as_* operation that fails fails with InvalidState and leaves
\* every field of the order, updated_at included, as it was; a mark_as_*
\* operation or set_prepay_id that succeeds sets updated_at to the current
\* time; updated_at never decreases and is never earlier than created_at or
\* paid_at.
C35_UpdatedAt ==
    [][/\ (last' # last /\ last'.op \in Transitions /\ ~last'.ok)
            => /\ last'.err.kind = "InvalidState"
               /\ order' = order
       /\ (last' # last /\ last'.op \in Transitions \cup {"set_prepay_id"} /\ last'.ok)
            => Unwrap(order').updated_at = now
       /\ (IsSome(order) /\ IsSome(order'))
            => Unwrap(order').updated_at >= Unwrap(order).updated_at
       /\ IsSome(order')
            => /\ Unwrap(order').updated_at >= Unwrap(order').created_at
               /\ IsSome(Unwrap(order').paid_at)
                    => Unwrap(order').updated_at >= Unwrap(Unwrap(order').paid_at)]_vars

\* set_prepay_id applied to an order that succeeded at an earlier time.
C35_Witness ==
    /\ origin = "new"
    /\ last.op = "set_prepay_id"
    /\ last.ok
    /\ Before.state = "Succeeded"
    /\ Before.updated_at < now
    /\ Cur.updated_at = now
    /\ Cur.created_at < now
    /\ Cur.paid_at = Some(Before.updated_at)

\* create_payment returned for a request without openid.
CreatedAnonymous ==
    /\ ret.pc = "done"
    /\ ret.op = "create_payment"
    /\ IsSome(ret.req)
    /\ Unwrap(ret.req).openid = None

====
